---- MODULE Spec2Model ----
(***************************************************************************)
(* Model of fabrikate's core.ComponentConfig (core/componentConfig.go) and *)
(* of the `unset` command (cmd/unset.go).                                  *)
(*                                                                         *)
(* Go values are modelled as follows.                                      *)
(*  - A Go map is a reference.  The trees of this program are owned        *)
(*    exclusively (no map is reachable through two paths), so a write      *)
(*    through a map that is reachable from the root is an update of the    *)
(*    root tree at that place; a write through a map that was made for a   *)
(*    local copy only is lost.  The operators below return the new root    *)
(*    tree next to their Go result.                                        *)
(*  - A Go map over a finite key set is a total function on that key set   *)
(*    whose absent keys hold ABSENT; the nil map is NIL.                   *)
(*  - An interface{} setting is Scalar(v) or MapOf(m).                     *)
(*  - A run-time panic (failed type assertion, write to a nil map, index   *)
(*    or slice out of range) is the outcome "panic".                       *)
(***************************************************************************)
EXTENDS Naturals, Sequences, FiniteSets, TLC

\* ------------------------------------------------------------------ bounds
Keys == {"x", "y"}
Values == {"1", "2"}
Names == {"a", "b"}
Namespaces == {"", "ns0", "ns1"}
MaxPathLen == 3
MaxSubLen == 2
MaxSteps == 2

SeqsUpTo(S, n) == UNION {[1..k -> S] : k \in 0..n}
Paths == SeqsUpTo(Keys, MaxPathLen) \ {<<>>}
SubPaths == SeqsUpTo(Names, MaxSubLen)

\* ------------------------------------------------------------------ values
NIL == [kind |-> "nil"]
ABSENT == [kind |-> "absent"]
Scalar(v) == [kind |-> "scalar", val |-> v]
MapOf(f) == [kind |-> "map", m |-> f]
IsScalar(e) == e.kind = "scalar"
IsNil(e) == e.kind = "nil"
Exists(e) == e.kind # "absent"

\* map[string]interface{}{}
EmptySettings == MapOf([k \in Keys |-> ABSENT])
\* map[string]ComponentConfig{}
EmptySubcomponents == MapOf([n \in Names |-> ABSENT])

\* The type assertion v.(map[string]interface{}) of the comma-ok form.
IsAMap(e) == e.kind = "map"

\* type ComponentConfig struct (Path and Serialization are not serialized and
\* decide nothing below; they are left out).
ComponentConfig(ns, inj, cfg, subs) ==
  [kind |-> "cc", Namespace |-> ns, InjectNamespace |-> inj, Config |-> cfg,
   Subcomponents |-> subs]

NewComponentConfig == ComponentConfig("", FALSE, EmptySettings, EmptySubcomponents)

\* The zero value ComponentConfig{}: what indexing a map[string]ComponentConfig
\* yields for an absent key, and what a decoder starts a map entry from.
ZeroComponentConfig == ComponentConfig("", FALSE, NIL, NIL)

\* v, ok := m[k]: no entry when the map is nil or does not hold the key.
Lookup(mp, k) ==
  IF IsNil(mp) THEN ABSENT
  ELSE IF k \in DOMAIN mp.m THEN mp.m[k] ELSE ABSENT

\* ------------------------------------------------- HasComponentConfig
RECURSIVE HasLevel(_, _)
HasLevel(configLevel, path) ==
  IF path = <<>> THEN "true"
  ELSE LET e == IF IsNil(configLevel) THEN ABSENT ELSE configLevel.m[Head(path)] IN
       IF ~Exists(e) THEN "false"
       ELSE IF Len(path) > 1
            THEN IF IsAMap(e) THEN HasLevel(e, Tail(path)) ELSE "panic"
            ELSE "true"

HasComponentConfig(cc, path) == HasLevel(cc.Config, path)

\* ------------------------------------------------- SetComponentConfig
\* Mutant: the final assignment is lost.
AssignValueDropped(m, k, value) == m

\* configLevel[pathPart] = value
AssignValue(m, k, value) == [m EXCEPT ![k] = Scalar(value)]

\* The result of a walk: the outcome and the map as the walk left it.
Res(out, cfg) == [out |-> out, cfg |-> cfg]

\* Mutant: a non-map value on the way is overwritten with an empty map (what the
\* comment above the function says) instead of being reported.
RECURSIVE SetLevelOverwrite(_, _, _)
SetLevelOverwrite(configLevel, path, value) ==
  LET k == Head(path) IN
  IF Len(path) > 1
  THEN LET created == IF IsAMap(configLevel.m[k]) THEN configLevel.m[k] ELSE EmptySettings
           r == SetLevelOverwrite(created, Tail(path), value) IN
       Res(r.out, MapOf([configLevel.m EXCEPT ![k] = r.cfg]))
  ELSE Res("ok", MapOf(AssignValue(configLevel.m, k, value)))

RECURSIVE SetLevel(_, _, _)
SetLevel(configLevel, path, value) ==
  LET k == Head(path) IN
  IF Len(path) > 1
  THEN LET created == IF Exists(configLevel.m[k]) THEN configLevel.m[k] ELSE EmptySettings IN
       IF ~IsAMap(created) THEN Res("err", configLevel)
       ELSE LET r == SetLevel(created, Tail(path), value) IN
            Res(r.out, MapOf([configLevel.m EXCEPT ![k] = r.cfg]))
  ELSE Res("ok", MapOf(AssignValue(configLevel.m, k, value)))

SetComponentConfig(config, path, value) ==
  IF path = <<>> THEN Res("ok", config)
  ELSE IF IsNil(config) THEN Res("panic", config)
  ELSE SetLevel(config, path, value)

\* ------------------------------------------------- UnsetComponentConfig
\* delete(configLevel, key)
DeleteKey(m, k) == [m EXCEPT ![k] = ABSENT]

\* Mutant: a key that is not found is a no-op (what the comment above the
\* function says) instead of an error.
RECURSIVE UnsetLevelNoop(_, _)
UnsetLevelNoop(configLevel, keyPath) ==
  LET k == Head(keyPath)
      e == Lookup(configLevel, k) IN
  IF Len(keyPath) > 1
  THEN IF ~Exists(e) THEN Res("ok", configLevel)
       ELSE IF ~IsAMap(e) THEN Res("err", configLevel)
       ELSE LET r == UnsetLevelNoop(e, Tail(keyPath)) IN
            Res(r.out, MapOf([configLevel.m EXCEPT ![k] = r.cfg]))
  ELSE IF Exists(e) THEN Res("ok", MapOf(DeleteKey(configLevel.m, k)))
       ELSE Res("ok", configLevel)

\* Mutant: a map that the deletion leaves empty is removed from its parent.
RECURSIVE UnsetLevelPrune(_, _)
UnsetLevelPrune(configLevel, keyPath) ==
  LET k == Head(keyPath)
      e == Lookup(configLevel, k) IN
  IF Len(keyPath) > 1
  THEN IF ~Exists(e) THEN Res("err", configLevel)
       ELSE IF ~IsAMap(e) THEN Res("err", configLevel)
       ELSE LET r == UnsetLevelPrune(e, Tail(keyPath)) IN
            Res(r.out, MapOf([configLevel.m EXCEPT
                                ![k] = IF r.out = "ok" /\ r.cfg = EmptySettings
                                       THEN ABSENT ELSE r.cfg]))
  ELSE IF Exists(e) THEN Res("ok", MapOf(DeleteKey(configLevel.m, k)))
       ELSE Res("err", configLevel)

RECURSIVE UnsetLevel(_, _)
UnsetLevel(configLevel, keyPath) ==
  LET k == Head(keyPath)
      e == Lookup(configLevel, k) IN
  IF Len(keyPath) > 1
  THEN IF ~Exists(e) THEN Res("err", configLevel)
       ELSE IF ~IsAMap(e) THEN Res("err", configLevel)
       ELSE LET r == UnsetLevel(e, Tail(keyPath)) IN
            Res(r.out, MapOf([configLevel.m EXCEPT ![k] = r.cfg]))
  ELSE IF Exists(e) THEN Res("ok", MapOf(DeleteKey(configLevel.m, k)))
       ELSE Res("err", configLevel)

UnsetComponentConfig(config, keyPath) ==
  IF keyPath = <<>> THEN Res("panic", config)
  ELSE UnsetLevel(config, keyPath)

\* ------------------------------------------------- subcomponent tree
\* cur.Subcomponents[name], with Go's reading of a nil map (no entry).
SubEntry(node, name) ==
  IF IsNil(node.Subcomponents) THEN ABSENT ELSE node.Subcomponents.m[name]

\* The node that the chain of names leads to, ABSENT when a name is missing.
RECURSIVE NodeAt(_, _)
NodeAt(node, subcomponentPath) ==
  IF subcomponentPath = <<>> THEN node
  ELSE LET e == SubEntry(node, Head(subcomponentPath)) IN
       IF Exists(e) THEN NodeAt(e, Tail(subcomponentPath)) ELSE ABSENT

HasSubcomponentConfig(node, subcomponentPath) ==
  Exists(NodeAt(node, subcomponentPath))

\* The root tree with the node at subcomponentPath (which exists) replaced:
\* a write through the maps the walk went through.
RECURSIVE ReplaceAt(_, _, _)
ReplaceAt(node, subcomponentPath, new) ==
  IF subcomponentPath = <<>> THEN new
  ELSE LET n == Head(subcomponentPath) IN
       [node EXCEPT !.Subcomponents =
          MapOf([node.Subcomponents.m EXCEPT
                   ![n] = ReplaceAt(node.Subcomponents.m[n], Tail(subcomponentPath), new)])]

\* ------------------------------------------------- GetSubcomponentConfig
\* tree: the receiver's tree after the call; node: the returned struct;
\* shared: whether the returned struct's maps are maps of the receiver's tree.
GetRes(tree, node, shared) == [tree |-> tree, node |-> node, shared |-> shared]

\* if subcomponentConfig.Subcomponents == nil { subcomponentConfig.Subcomponents = map... }
\* assigns to the local copy of the struct: the new map is not stored in the
\* tree, and everything created below it is reachable from the copy alone.
RECURSIVE GetLevel(_, _)
GetLevel(node, subcomponentPath) ==
  IF subcomponentPath = <<>> THEN GetRes(node, node, TRUE)
  ELSE IF IsNil(node.Subcomponents) THEN GetRes(node, NewComponentConfig, FALSE)
  ELSE LET n == Head(subcomponentPath)
           e == node.Subcomponents.m[n]
           child == IF Exists(e) THEN e ELSE NewComponentConfig
           r == GetLevel(child, Tail(subcomponentPath)) IN
       GetRes([node EXCEPT !.Subcomponents = MapOf([node.Subcomponents.m EXCEPT ![n] = r.tree])],
              r.node, r.shared)

GetSubcomponentConfig(root, subcomponentPath) == GetLevel(root, subcomponentPath)

\* ------------------------------------------------- RemoveComponentConfig
\* The index of lastComponentName := subcomponentPath[len(subcomponentPath)+1]
LastComponentIndex(subcomponentPath) == Len(subcomponentPath) + 1

\* Res(out, tree).  The loop walks the whole of subcomponentPath; the index
\* expression after it is evaluated only when every name was found.
RemoveComponentConfig(root, subcomponentPath) ==
  LET reached == NodeAt(root, subcomponentPath)
      i == LastComponentIndex(subcomponentPath) IN
  IF ~Exists(reached) THEN Res("err", root)
  ELSE IF i >= Len(subcomponentPath) THEN Res("panic", root)
  ELSE LET lastComponentName == subcomponentPath[i + 1] IN
       IF ~Exists(SubEntry(reached, lastComponentName)) THEN Res("err", root)
       ELSE Res("ok", ReplaceAt(root, subcomponentPath,
                  [reached EXCEPT !.Subcomponents =
                     MapOf(DeleteKey(reached.Subcomponents.m, lastComponentName))]))

\* ------------------------------------------------- SetConfig, UnsetConfig
\* The settings call runs on the struct GetSubcomponentConfig returned; what it
\* writes reaches the receiver's tree when that struct's Config map is shared.
ApplyToSub(root, subcomponentPath, g, r) ==
  IF g.shared /\ ~IsNil(g.node.Config)
  THEN Res(r.out, ReplaceAt(g.tree, subcomponentPath, [g.node EXCEPT !.Config = r.cfg]))
  ELSE Res(r.out, g.tree)

SetConfig(root, subcomponentPath, path, value) ==
  LET g == GetSubcomponentConfig(root, subcomponentPath) IN
  ApplyToSub(root, subcomponentPath, g, SetComponentConfig(g.node.Config, path, value))

UnsetConfig(root, subcomponentPath, path) ==
  LET g == GetSubcomponentConfig(root, subcomponentPath) IN
  ApplyToSub(root, subcomponentPath, g, UnsetComponentConfig(g.node.Config, path))

\* ------------------------------------------------------------------ state
\* cc: the ComponentConfig the calls are made on; disk: the persisted config of
\* the environment; last: the last call, its arguments, the tree before it and
\* its outcome; steps: the number of calls made.
VARIABLES cc, disk, last, steps
vars == <<cc, disk, last, steps>>

NoFile == [kind |-> "nofile"]

Call(op, sub, path, value, arg, pre, out, ret) ==
  [op |-> op, sub |-> sub, path |-> path, value |-> value, arg |-> arg,
   pre |-> pre, out |-> out, ret |-> ret]

NoCall == Call("none", <<>>, <<>>, "", NIL, NIL, "ok", NIL)

Running == steps < MaxSteps /\ last.out # "panic"

\* ------------------------------------------------- settings-tree calls
\* A config as TestUnset builds it for a subcomponent: x.y.x = "1", y = "1".
FixtureSettings ==
  MapOf([k \in Keys |->
     IF k = "x"
     THEN MapOf([k2 \in Keys |->
            IF k2 = "y" THEN MapOf([k3 \in Keys |-> IF k3 = "x" THEN Scalar("1") ELSE ABSENT])
            ELSE ABSENT])
     ELSE Scalar("1")])

Init ==
  /\ cc \in {NewComponentConfig, [NewComponentConfig EXCEPT !.Config = FixtureSettings]}
  /\ disk = NoFile
  /\ last = NoCall
  /\ steps = 0

DoSetComponentConfig(path, value) ==
  /\ Running
  /\ LET r == SetComponentConfig(cc.Config, path, value) IN
     /\ cc' = [cc EXCEPT !.Config = r.cfg]
     /\ last' = Call("SetComponentConfig", <<>>, path, value, NIL, cc, r.out, NIL)
  /\ steps' = steps + 1
  /\ UNCHANGED disk

DoUnsetComponentConfig(path) ==
  /\ Running
  /\ LET r == UnsetComponentConfig(cc.Config, path) IN
     /\ cc' = [cc EXCEPT !.Config = r.cfg]
     /\ last' = Call("UnsetComponentConfig", <<>>, path, "", NIL, cc, r.out, NIL)
  /\ steps' = steps + 1
  /\ UNCHANGED disk

DoHasComponentConfig(path) ==
  /\ Running
  /\ LET h == HasComponentConfig(cc, path) IN
     last' = Call("HasComponentConfig", <<>>, path, "", NIL, cc,
                  IF h = "panic" THEN "panic" ELSE "ok", h)
  /\ steps' = steps + 1
  /\ UNCHANGED <<cc, disk>>

Next ==
  \/ \E p \in Paths, v \in Values : DoSetComponentConfig(p, v)
  \/ \E p \in Paths : DoUnsetComponentConfig(p)
  \/ \E p \in Paths : DoHasComponentConfig(p)

Spec == Init /\ [][Next]_vars

\* ------------------------------------------------- Write, Load
\* What Write persists: the struct tags say omitempty, so an empty namespace, a
\* false injectNamespace and a nil or empty config or subcomponents map are
\* left out of the file (NIL below); a map entry is written whatever it holds,
\* so an empty map nested in the settings stays in the file.
NoEntries(mp) == IsNil(mp) \/ \A k \in DOMAIN mp.m : ~Exists(mp.m[k])

RECURSIVE Marshal(_)
Marshal(node) ==
  ComponentConfig(node.Namespace, node.InjectNamespace,
     IF NoEntries(node.Config) THEN NIL ELSE node.Config,
     IF NoEntries(node.Subcomponents) THEN NIL
     ELSE MapOf([n \in Names |->
            IF Exists(node.Subcomponents.m[n]) THEN Marshal(node.Subcomponents.m[n])
            ELSE ABSENT]))

\* Load decodes the file into the struct NewComponentConfig made: a field the
\* file does not name keeps the value it had (the empty maps of the root); a
\* subcomponent is decoded into a zero struct, whose unnamed maps stay nil.
\* Without a file for the environment the struct stays as it was made.
Load(file) ==
  IF file.kind = "nofile" THEN NewComponentConfig
  ELSE ComponentConfig(file.Namespace, file.InjectNamespace,
         IF IsNil(file.Config) THEN NewComponentConfig.Config ELSE file.Config,
         IF IsNil(file.Subcomponents) THEN NewComponentConfig.Subcomponents
         ELSE file.Subcomponents)

\* The file TestUnset's two Set calls leave: subcomponent a with x.y.x and y,
\* and a subcomponent b that names a namespace only.
FixtureFile ==
  ComponentConfig("", FALSE, NIL,
     MapOf([n \in Names |->
        IF n = "a" THEN ComponentConfig("", FALSE, FixtureSettings, NIL)
        ELSE ComponentConfig("ns0", FALSE, NIL, NIL)]))

\* ------------------------------------------------- subcomponent calls
\* The setting paths used under a subcomponent: those of the fixture.
SubSettingPaths == {<<"x">>, <<"y">>, <<"x", "y">>, <<"x", "y", "x">>}

InitSub ==
  /\ cc \in {NewComponentConfig, Load(FixtureFile)}
  /\ disk = NoFile
  /\ last = NoCall
  /\ steps = 0

DoGetSubcomponentConfig(sub) ==
  /\ Running
  /\ LET g == GetSubcomponentConfig(cc, sub) IN
     /\ cc' = g.tree
     /\ last' = Call("GetSubcomponentConfig", sub, <<>>, "", NIL, cc, "ok", g.node)
  /\ steps' = steps + 1
  /\ UNCHANGED disk

DoRemoveComponentConfig(sub) ==
  /\ Running
  /\ LET r == RemoveComponentConfig(cc, sub) IN
     /\ cc' = r.cfg
     /\ last' = Call("RemoveComponentConfig", sub, <<>>, "", NIL, cc, r.out, NIL)
  /\ steps' = steps + 1
  /\ UNCHANGED disk

DoSetConfig(sub, path, value) ==
  /\ Running
  /\ LET r == SetConfig(cc, sub, path, value) IN
     /\ cc' = r.cfg
     /\ last' = Call("SetConfig", sub, path, value, NIL, cc, r.out, NIL)
  /\ steps' = steps + 1
  /\ UNCHANGED disk

DoUnsetConfig(sub, path) ==
  /\ Running
  /\ LET r == UnsetConfig(cc, sub, path) IN
     /\ cc' = r.cfg
     /\ last' = Call("UnsetConfig", sub, path, "", NIL, cc, r.out, NIL)
  /\ steps' = steps + 1
  /\ UNCHANGED disk

NextSub ==
  \/ \E q \in SubPaths : DoGetSubcomponentConfig(q)
  \/ \E q \in SubPaths : DoRemoveComponentConfig(q)
  \/ \E q \in SubPaths, p \in SubSettingPaths, v \in Values : DoSetConfig(q, p, v)
  \/ \E q \in SubPaths, p \in SubSettingPaths : DoUnsetConfig(q, p)

SpecSub == InitSub /\ [][NextSub]_vars


\* ------------------------------------------------- MergeNamespaces, Merge
\* newConfig.Subcomponents[key]: the zero struct when newConfig has no such entry.
PeerEntry(newConfig, key) ==
  LET e == SubEntry(newConfig, key) IN
  IF Exists(e) THEN e ELSE ZeroComponentConfig

\* Mutant: the namespace is copied whether or not the receiver has one.
RECURSIVE MergeNamespacesAlways(_, _)
MergeNamespacesAlways(node, newConfig) ==
  [node EXCEPT
     !.Namespace = newConfig.Namespace,
     !.InjectNamespace = newConfig.InjectNamespace,
     !.Subcomponents =
        IF IsNil(node.Subcomponents) THEN NIL
        ELSE MapOf([key \in Names |->
               IF Exists(node.Subcomponents.m[key])
               THEN MergeNamespacesAlways(node.Subcomponents.m[key], PeerEntry(newConfig, key))
               ELSE ABSENT])]

RECURSIVE MergeNamespaces(_, _)
MergeNamespaces(node, newConfig) ==
  [node EXCEPT
     !.Namespace = IF node.Namespace = "" THEN newConfig.Namespace ELSE node.Namespace,
     !.InjectNamespace =
        IF node.Namespace = "" THEN newConfig.InjectNamespace ELSE node.InjectNamespace,
     !.Subcomponents =
        IF IsNil(node.Subcomponents) THEN NIL
        ELSE MapOf([key \in Names |->
               IF Exists(node.Subcomponents.m[key])
               THEN MergeNamespaces(node.Subcomponents.m[key], PeerEntry(newConfig, key))
               ELSE ABSENT])]

\* Mutant of options.Overwrite = false.
OverwriteTrue == TRUE

\* options.Overwrite = false
Overwrite == FALSE

\* conjungo.Merge(cc, newConfig, options).  The library is not part of the
\* sources; the deep merge is modelled from the description of merge: other's
\* settings and children are merged into self, a key self lacks is taken from
\* other, two maps are merged key by key, and on any other pair self's value
\* stays unless Overwrite is set.
RECURSIVE MergeValue(_, _)
MergeValue(t, s) ==
  IF ~Exists(t) \/ IsNil(t) THEN s
  ELSE IF ~Exists(s) \/ IsNil(s) THEN t
  ELSE IF IsAMap(t) /\ IsAMap(s)
  THEN MapOf([k \in DOMAIN t.m |-> MergeValue(t.m[k], s.m[k])])
  ELSE IF t.kind = "cc" /\ s.kind = "cc"
  THEN ComponentConfig(IF Overwrite THEN s.Namespace ELSE t.Namespace,
                       IF Overwrite THEN s.InjectNamespace ELSE t.InjectNamespace,
                       MergeValue(t.Config, s.Config),
                       MergeValue(t.Subcomponents, s.Subcomponents))
  ELSE IF Overwrite THEN s ELSE t

ConjungoMerge(target, source) == MergeValue(target, source)

\* Merge: the structural merge, then MergeNamespaces on its result.
Merge(node, newConfig) == MergeNamespaces(ConjungoMerge(node, newConfig), newConfig)

\* ------------------------------------------------- merge calls
\* The config files the merged trees are loaded from.  One family varies the
\* settings of the root and of a subcomponent, the other the namespaces of the
\* root, of a subcomponent and of a subcomponent of that one.
Settings2(ex, ey) == MapOf([k \in Keys |-> IF k = "x" THEN ex ELSE ey])
Inner(k, v) == MapOf([j \in Keys |-> IF j = k THEN Scalar(v) ELSE ABSENT])
Only(name, node) == MapOf([n \in Names |-> IF n = name THEN node ELSE ABSENT])

SettingsFiles ==
  {NIL} \cup
  ({Settings2(ex, ey) :
      ex \in {ABSENT, Scalar("1"), Scalar("2"), Inner("y", "1"), Inner("y", "2")},
      ey \in {ABSENT, Scalar("1")}} \ {EmptySettings})

SettingsFamily ==
  {ComponentConfig("", FALSE, c, subs) :
     c \in SettingsFiles,
     subs \in {NIL} \cup {Only("a", ComponentConfig("", FALSE, c2, NIL)) :
                  c2 \in {NIL, Settings2(Scalar("1"), ABSENT), Settings2(Inner("y", "2"), ABSENT)}}}

NamespaceFamily ==
  {ComponentConfig(ns, inj, NIL, subs) :
     ns \in Namespaces, inj \in BOOLEAN,
     subs \in {NIL} \cup
        {Only("a", ComponentConfig(ns1, inj1, NIL, subs2)) :
           ns1 \in {"", "ns1"}, inj1 \in BOOLEAN,
           subs2 \in {NIL, Only("b", ComponentConfig("", TRUE, NIL, NIL)),
                      Only("b", ComponentConfig("ns0", FALSE, NIL, NIL))}}}

SettingsConfigs == {Load(f) : f \in SettingsFamily}
NamespaceConfigs == {Load(f) : f \in NamespaceFamily}

DoMerge(newConfig) ==
  /\ Running
  /\ cc' = Merge(cc, newConfig)
  /\ last' = Call("Merge", <<>>, <<>>, "", newConfig, cc, "ok", NIL)
  /\ steps' = steps + 1
  /\ UNCHANGED disk

DoMergeNamespaces(newConfig) ==
  /\ Running
  /\ cc' = MergeNamespaces(cc, newConfig)
  /\ last' = Call("MergeNamespaces", <<>>, <<>>, "", newConfig, cc, "ok", NIL)
  /\ steps' = steps + 1
  /\ UNCHANGED disk

\* Merges of trees that differ in their settings.
InitMergeSettings ==
  /\ cc \in SettingsConfigs
  /\ disk = NoFile
  /\ last = NoCall
  /\ steps = 0

NextMergeSettings == \E c \in SettingsConfigs : DoMerge(c)

SpecMergeSettings == InitMergeSettings /\ [][NextMergeSettings]_vars

\* Merges of trees that differ in their namespaces.
InitMerge ==
  /\ cc \in NamespaceConfigs
  /\ disk = NoFile
  /\ last = NoCall
  /\ steps = 0

NextMerge ==
  \/ \E c \in NamespaceConfigs : DoMerge(c)
  \/ \E c \in NamespaceConfigs : DoMergeNamespaces(c)

SpecMerge == InitMerge /\ [][NextMerge]_vars

\* ------------------------------------------------- the unset command
\* A command-line string is the sequence of its characters; the names on the
\* command lines of this model are one letter long.
Dot == "."

\* strings.Split(str, "."): the pieces between the dots, empty pieces included.
RECURSIVE Split(_)
Split(str) ==
  IF \A i \in 1..Len(str) : str[i] # Dot THEN <<str>>
  ELSE LET i == CHOOSE j \in 1..Len(str) :
                   str[j] = Dot /\ \A h \in 1..(j - 1) : str[h] # Dot IN
       <<SubSeq(str, 1, i - 1)>> \o Split(SubSeq(str, i + 1, Len(str)))

\* The Go string of a piece: its letter, or "" for the empty piece.
Word(piece) == IF Len(piece) = 1 THEN piece[1] ELSE ""
Words(pieces) == [i \in 1..Len(pieces) |-> Word(pieces[i])]

\* The dotted string of a path.
RECURSIVE Join(_)
Join(path) ==
  IF Len(path) <= 1 THEN path
  ELSE <<Head(path), Dot>> \o Join(Tail(path))

\* for _, keyPath := range keyPaths { if err = UnsetConfig(...); err != nil { return err } }
\* Res(out, tree): the first failure ends the loop, the tree as the earlier
\* keys left it.
RECURSIVE UnsetKeys(_, _, _)
UnsetKeys(root, subcomponentPath, keyPaths) ==
  IF keyPaths = <<>> THEN Res("ok", root)
  ELSE LET r == UnsetConfig(root, subcomponentPath, Head(keyPaths)) IN
       IF r.out # "ok" THEN r
       ELSE UnsetKeys(r.cfg, subcomponentPath, Tail(keyPaths))

\* Mutant: the config is written whatever the removals returned.
WritesAfterAlways(out) == out # "panic"

\* Write is reached only past the `return err` of every removal.
WritesAfter(out) == out = "ok"

\* unset(keys, environment, subcomponent, removeSubcomponent) on the persisted
\* config `file` of the environment: the outcome, the config in memory when the
\* command ends, and the persisted config after it.
UnsetCommand(keys, file, subcomponent, removeSubcomponent) ==
  LET componentConfig == Load(file)
      subcomponentPath == IF Len(subcomponent) > 0 THEN Words(Split(subcomponent)) ELSE <<>>
      keyPaths == [i \in 1..Len(keys) |-> Words(Split(keys[i]))]
      r == IF removeSubcomponent
           THEN RemoveComponentConfig(componentConfig, subcomponentPath)
           ELSE UnsetKeys(componentConfig, subcomponentPath, keyPaths) IN
  [out |-> r.out, mem |-> r.cfg,
   file |-> IF WritesAfter(r.out) THEN Marshal(r.cfg) ELSE file]

\* ------------------------------------------------- command runs
MaxKeys == 2

\* The keys and the subcomponents given on the command line.
KeyStrings == {Join(p) : p \in {<<"y">>, <<"x", "y">>, <<"x", "y", "x">>}} \cup {<<"x", Dot>>}
SubcomponentStrings == {Join(q) : q \in {<<>>, <<"a">>, <<"a", "b">>}}

InitCmd ==
  /\ cc = NewComponentConfig
  /\ disk \in {NoFile, FixtureFile}
  /\ last = NoCall
  /\ steps = 0

\* One run of `fab unset`: a process of its own, which loads, removes and writes.
DoUnsetCommand(keys, subcomponent, removeSubcomponent) ==
  /\ steps < MaxSteps
  /\ LET u == UnsetCommand(keys, disk, subcomponent, removeSubcomponent) IN
     /\ cc' = u.mem
     /\ disk' = u.file
     /\ last' = Call("unset", subcomponent, <<>>, "",
                     [keys |-> keys, removeSubcomponent |-> removeSubcomponent],
                     disk, u.out, NIL)
  /\ steps' = steps + 1

NextCmd ==
  \E keys \in SeqsUpTo(KeyStrings, MaxKeys), sub \in SubcomponentStrings, rm \in BOOLEAN :
     DoUnsetCommand(keys, sub, rm)

SpecCmd == InitCmd /\ [][NextCmd]_vars

\* ------------------------------------------------- reading a settings tree
\* The value stored at path, reached through nested maps only; ABSENT when a
\* segment is missing or a segment before the last holds a scalar.
RECURSIVE ValueAt(_, _)
ValueAt(config, path) ==
  IF path = <<>> THEN config
  ELSE IF ~IsAMap(config) THEN ABSENT
  ELSE ValueAt(config.m[Head(path)], Tail(path))

Prefix(path, n) == SubSeq(path, 1, n)
IsProperPrefix(q, path) == Len(q) < Len(path) /\ q = Prefix(path, Len(q))

\* Some segment before the last resolves to an existing scalar.
ScalarOnWay(config, path) ==
  \E n \in 1..(Len(path) - 1) : IsScalar(ValueAt(config, Prefix(path, n)))

\* Every setting path a tree of this model can hold.
AllPaths == SeqsUpTo(Keys, MaxPathLen + 1) \ {<<>>}

\* ------------------------------------------------- claims on the settings tree
\* C1: when SetComponentConfig(p, v) returns without error, HasComponentConfig(p)
\* is true and the value stored at p is exactly the scalar v, every segment
\* before the last being a nested map.
C1_SetThenHas ==
  (last.op = "SetComponentConfig" /\ last.out = "ok") =>
     /\ HasComponentConfig(cc, last.path) = "true"
     /\ ValueAt(cc.Config, last.path) = Scalar(last.value)
     /\ \A n \in 1..(Len(last.path) - 1) : IsAMap(ValueAt(cc.Config, Prefix(last.path, n)))

\* A set of depth 3 that had to create both intermediate maps.
C1_Witness ==
  /\ last.op = "SetComponentConfig" /\ last.out = "ok"
  /\ Len(last.path) = 3
  /\ ~Exists(ValueAt(last.pre.Config, Prefix(last.path, 1)))
  /\ ValueAt(cc.Config, last.path) = Scalar(last.value)

C4_UnsetRemovesOnlyLeaf ==
  (last.op = "UnsetComponentConfig" /\ last.out = "ok") =>
     \A q \in AllPaths :
        IF q = last.path \/ IsProperPrefix(last.path, q)
        THEN ~Exists(ValueAt(cc.Config, q))
        ELSE IF IsProperPrefix(q, last.path)
        THEN IsAMap(ValueAt(cc.Config, q))
        ELSE ValueAt(cc.Config, q) = ValueAt(last.pre.Config, q)

\* x.y.x is unset and x.y stays as the empty map, the sibling y keeps its value.
C4_Witness ==
  /\ last.op = "UnsetComponentConfig" /\ last.out = "ok"
  /\ Len(last.path) = 3
  /\ ValueAt(cc.Config, Prefix(last.path, 2)) = EmptySettings
  /\ \E k \in Keys : k # last.path[1] /\ IsScalar(ValueAt(cc.Config, <<k>>))

\* C5: HasComponentConfig(path) returns false whenever a segment before the last
\* holds a scalar, and returns true only if every segment resolves through maps.
C5_HasFalseOnScalar ==
  last.op = "HasComponentConfig" =>
     /\ ScalarOnWay(last.pre.Config, last.path) => last.ret = "false"
     /\ last.ret = "true" => Exists(ValueAt(last.pre.Config, last.path))

\* ------------------------------------------------- claims on subcomponents
Front(q) == SubSeq(q, 1, Len(q) - 1)
Last(q) == q[Len(q)]

\* C6: RemoveComponentConfig(namePath), every name of a non-empty namePath
\* existing, returns no error and deletes exactly the final name from its
\* parent (the parent and the siblings remain); with a name missing it returns
\* an error and removes nothing.
C6_RemoveDeletesLast ==
  (last.op = "RemoveComponentConfig" /\ last.sub # <<>>) =>
     IF HasSubcomponentConfig(last.pre, last.sub)
     THEN /\ last.out = "ok"
          /\ ~HasSubcomponentConfig(cc, last.sub)
          /\ HasSubcomponentConfig(cc, Front(last.sub))
          /\ \A n \in Names \ {Last(last.sub)} :
                NodeAt(cc, Front(last.sub) \o <<n>>) = NodeAt(last.pre, Front(last.sub) \o <<n>>)
     ELSE last.out = "err" /\ cc = last.pre

\* C7: GetSubcomponentConfig(namePath) never fails and inserts every missing
\* subcomponent into the receiver's tree, so that HasSubcomponentConfig(namePath)
\* holds afterwards and a SetConfig(namePath, p, v) can be read back from the root.
C7_GetInsertsIntoReceiver ==
  /\ last.op = "GetSubcomponentConfig" =>
        last.out = "ok" /\ HasSubcomponentConfig(cc, last.sub)
  /\ (last.op = "SetConfig" /\ last.out = "ok") =>
        /\ HasSubcomponentConfig(cc, last.sub)
        /\ ValueAt(NodeAt(cc, last.sub).Config, last.path) = Scalar(last.value)

\* ------------------------------------------------- claims on merge
\* The setting stored at path under the subcomponent sub of root.
SettingAt(root, sub, path) ==
  LET n == NodeAt(root, sub) IN
  IF Exists(n) THEN ValueAt(n.Config, path) ELSE ABSENT

\* The peer of the node at sub in the other tree: the zero struct when absent.
PeerAt(other, sub) ==
  LET n == NodeAt(other, sub) IN
  IF Exists(n) THEN n ELSE ZeroComponentConfig

\* Every chain of subcomponent names, and every setting path, that a tree of the
\* merge families can hold.
NodePaths == SeqsUpTo(Names, 2)
MergePaths == SeqsUpTo(Keys, 2) \ {<<>>}

\* Receiver-wins, the part that does not depend on the shape of other: a scalar
\* of the receiver keeps its value, no key and no subcomponent is removed.
ReceiverKept ==
  \A q \in NodePaths :
     /\ Exists(NodeAt(last.pre, q)) => Exists(NodeAt(cc, q))
     /\ \A p \in MergePaths :
          /\ IsScalar(SettingAt(last.pre, q, p)) =>
                SettingAt(cc, q, p) = SettingAt(last.pre, q, p)
          /\ Exists(SettingAt(last.pre, q, p)) => Exists(SettingAt(cc, q, p))

\* C8 as stated: after A.Merge(B) the receiver's scalars and keys are kept and
\* every setting path present only in B is present in A with B's value.
C8_MergeReceiverWins ==
  last.op = "Merge" =>
     /\ ReceiverKept
     /\ \A q \in NodePaths : \A p \in MergePaths :
          (Exists(SettingAt(last.arg, q, p)) /\ ~Exists(SettingAt(last.pre, q, p))) =>
             SettingAt(cc, q, p) = SettingAt(last.arg, q, p)

\* C8 amended: the same, for the paths present only in B that do not run
\* through a scalar of A.
C8_MergeReceiverWinsAmended ==
  last.op = "Merge" =>
     /\ ReceiverKept
     /\ \A q \in NodePaths : \A p \in MergePaths :
          (/\ Exists(SettingAt(last.arg, q, p))
           /\ ~Exists(SettingAt(last.pre, q, p))
           /\ (Exists(NodeAt(last.pre, q)) => ~ScalarOnWay(NodeAt(last.pre, q).Config, p))) =>
             SettingAt(cc, q, p) = SettingAt(last.arg, q, p)

\* A merge in which the receiver keeps x = "1" against x = "2" and takes y,
\* which only the other tree has.
C8_Witness ==
  /\ last.op = "Merge"
  /\ SettingAt(last.pre, <<>>, <<"x">>) = Scalar("1")
  /\ SettingAt(last.arg, <<>>, <<"x">>) = Scalar("2")
  /\ ~Exists(SettingAt(last.pre, <<>>, <<"y">>))
  /\ SettingAt(cc, <<>>, <<"x">>) = Scalar("1")
  /\ SettingAt(cc, <<>>, <<"y">>) = Scalar("1")

\* C9: under Merge and MergeNamespaces a node of the receiver whose namespace is
\* non-empty keeps namespace and injectNamespace; a node whose namespace is
\* empty takes both from its peer in the other tree (the empty node when there
\* is none); a node the merge added holds its peer's.
C9_NamespaceFirstSetWins ==
  last.op \in {"Merge", "MergeNamespaces"} =>
     \A q \in NodePaths :
        LET n == NodeAt(last.pre, q)
            n2 == NodeAt(cc, q)
            peer == PeerAt(last.arg, q) IN
        /\ Exists(n) =>
             /\ Exists(n2)
             /\ IF n.Namespace # ""
                THEN n2.Namespace = n.Namespace /\ n2.InjectNamespace = n.InjectNamespace
                ELSE n2.Namespace = peer.Namespace /\ n2.InjectNamespace = peer.InjectNamespace
        /\ (~Exists(n) /\ Exists(n2)) =>
             n2.Namespace = peer.Namespace /\ n2.InjectNamespace = peer.InjectNamespace

\* The root keeps ns0 against ns1 while its subcomponent a, which had no
\* namespace, takes its peer's.
C9_Witness ==
  /\ last.op \in {"Merge", "MergeNamespaces"}
  /\ last.pre.Namespace = "ns0" /\ last.arg.Namespace = "ns1" /\ cc.Namespace = "ns0"
  /\ Exists(NodeAt(last.pre, <<"a">>)) /\ NodeAt(last.pre, <<"a">>).Namespace = ""
  /\ PeerAt(last.arg, <<"a">>).Namespace = "ns1"
  /\ NodeAt(cc, <<"a">>).Namespace = "ns1"

\* ------------------------------------------------- claims on the command
\* C10: the unset command writes only if every removal succeeded; if one fails
\* the persisted config is exactly what it was before the command, whatever was
\* removed or created in memory; if all succeed the config in memory is what
\* is persisted.
C10_UnsetAllOrNothing ==
  last.op = "unset" =>
     /\ last.out # "ok" => disk = last.pre
     /\ last.out = "ok" => disk = Marshal(cc)
     /\ disk # last.pre =>
          /\ ~last.arg.removeSubcomponent
          /\ \A i \in 1..Len(last.arg.keys) :
               ~Exists(SettingAt(Load(disk), Words(Split(last.sub)),
                                 Words(Split(last.arg.keys[i]))))

\* The first of two keys was removed in memory, the second failed, and nothing
\* was written.
C10_Witness ==
  /\ last.op = "unset" /\ last.out = "err"
  /\ Len(last.arg.keys) = 2
  /\ cc # Load(last.pre)
  /\ disk = last.pre
====
